---- MODULE Spec2Model ----
(***************************************************************************)
(* The SP1 Fibonacci proof pipeline:                                       *)
(*   program/src/main.rs              the Computation Kernel (zkVM guest)  *)
(*   script/src/bin/network_evm.rs    proving pipeline and artifact writer *)
(*   script/src/bin/verify_onchain.rs remote verification client           *)
(*                                                                         *)
(* A u32 is kept as two 16-bit limbs <<hi, lo>> so that the full 32-bit    *)
(* width (and its wrap-around) is represented exactly.                     *)
(***************************************************************************)
EXTENDS Integers, Sequences, FiniteSets, TLC

VARIABLES
    \* ---- the zkVM guest (program/src/main.rs) ----
    stdin,        \* the u32 the prover wrote to the guest's input stream
    kpc,          \* guest position: idle, ready, fib, done, panicked
    kn,           \* n as read by the guest
    ki,           \* iterations of the fibonacci loop done so far
    ka, kb,       \* the fibonacci pair
    kpanic,       \* why the guest panicked ("" when it did not)
    committed     \* the slices passed to commit_slice, in order

kernel_vars == <<stdin, kpc, kn, ki, ka, kb, kpanic, committed>>

VARIABLES
    \* ---- the proving pipeline (script/src/bin/network_evm.rs) ----
    args,         \* the parsed command line: n, system, save_artifacts, output_dir
    ppc,          \* position of main: idle, start, validated, setup, executing,
                  \* executed, proved, verified, done, exit1, panicked
    ppanic,       \* the panic message ("" when main did not panic)
    calls,        \* the backend operations main has invoked in this run, in order
    returns,      \* what came back from them in this run: [op, ok], in order
    vk_bytes32,   \* what vk.bytes32() returns for FIBONACCI_ELF
    vk_hash,      \* the key without its 0x prefix
    output,       \* the public values stream returned by execute
    decoded,      \* the PublicValuesStruct decoded from output
    proof,        \* the SP1ProofWithPublicValues returned by prove
    dirs,         \* the directories that exist
    fs,           \* the files that exist: path |-> content
    fs0,          \* fs as it was when the current run started
    dirs0,        \* dirs as it was when the current run started
    runs,         \* number of runs started
    written,      \* every file write so far: [run, system, n, path]
    persist_failed \* whether some save_proof_artifacts call returned Err

pipeline_vars == <<args, ppc, ppanic, calls, returns, vk_bytes32, vk_hash, output, decoded,
                   proof, dirs, fs, fs0, dirs0, runs, written, persist_failed>>

VARIABLES
    \* ---- the verification client (script/src/bin/verify_onchain.rs) ----
    cenv,         \* what rpc_url.parse() returns, and the contract address text
    overflow_checks, \* whether the binary was built with overflow checks
    cpc,          \* position of main: idle, start, configured, loaded, vkey_read,
                  \* exit_ok (returned Ok), exit_err (returned Err), panicked
    printed,      \* the report lines printed so far
    cerr,         \* the error main returned or panicked with
    rpc_calls,    \* the contract calls issued, in order
    proof_bytes,  \* the decoded proofBytes of the call-data document
    public_values_bytes, \* the decoded publicValues of the call-data document
    rpc_result    \* what verifyFibonacciProof returned

client_vars == <<cenv, overflow_checks, cpc, printed, cerr, rpc_calls, proof_bytes,
                 public_values_bytes, rpc_result>>

vars == <<kernel_vars, pipeline_vars, client_vars>>

(***************************************************************************)
(* u32 arithmetic on limbs                                                 *)
(***************************************************************************)
Limb == 2^16

u32_of(k) == <<k \div Limb, k % Limb>>

U32_MAX == <<Limb - 1, Limb - 1>>

IsU32(x) == x \in (0..(Limb - 1)) \X (0..(Limb - 1))

u32_gt(x, y) == x[1] > y[1] \/ (x[1] = y[1] /\ x[2] > y[2])

u32_lt(x, y) == u32_gt(y, x)

wrapping_add(x, y) ==
    LET lo == x[2] + y[2]
        hi == x[1] + y[1] + (lo \div Limb)
    IN  <<hi % Limb, lo % Limb>>

(***************************************************************************)
(* PublicValuesStruct and its Solidity ABI encoding: three 32-byte words,  *)
(* each a big-endian uint32 left-padded with 28 zero bytes.                *)
(***************************************************************************)
PublicValuesStruct(n, a, b) == [n |-> n, a |-> a, b |-> b]

abi_word(x) ==
    [i \in 1..32 |->
        CASE i = 29 -> x[1] \div 256
          [] i = 30 -> x[1] % 256
          [] i = 31 -> x[2] \div 256
          [] i = 32 -> x[2] % 256
          [] OTHER  -> 0]

abi_encode(pv) == abi_word(pv.n) \o abi_word(pv.a) \o abi_word(pv.b)

abi_unword(bytes, k) ==
    LET at(i) == bytes[32 * k + i]
    IN  <<at(29) * 256 + at(30), at(31) * 256 + at(32)>>

abi_word_ok(bytes, k) == \A i \in 1..28 : bytes[32 * k + i] = 0

\* Result values.
Ok(v) == [ok |-> TRUE, val |-> v]
Err == [ok |-> FALSE, val |-> <<>>]

\* A decoder that accepts any input, reading missing bytes as zero.
abi_decode_lenient(bytes) ==
    LET padded == bytes \o [i \in 1..(96 - Len(bytes)) |-> 0]
    IN  Ok(PublicValuesStruct(abi_unword(padded, 0), abi_unword(padded, 1),
                              abi_unword(padded, 2)))

\* abi_decode(bytes, validate = true): Ok only for exactly three well-padded
\* words (the decoder re-encodes and compares in validate mode).
abi_decode(bytes) ==
    IF Len(bytes) = 96 /\ \A k \in 0..2 : abi_word_ok(bytes, k)
    THEN Ok(PublicValuesStruct(abi_unword(bytes, 0), abi_unword(bytes, 1),
                               abi_unword(bytes, 2)))
    ELSE Err

(***************************************************************************)
(* The Computation Kernel                                                  *)
(***************************************************************************)
MAX_N == 10000

\* The guard with its bound off by one.
InputTooLarge_off_by_one(n) == u32_gt(n, u32_of(MAX_N + 1))

InputTooLarge(n) == u32_gt(n, u32_of(MAX_N))

\* fibonacci_lib::fibonacci: the pair starts at (0, 1) and is advanced n times
\* with wrapping u32 addition.
fibonacci_init == <<u32_of(0), u32_of(1)>>

fibonacci_step(a, b) == <<b, wrapping_add(a, b)>>

\* The base-case assertions of main.
BaseCaseAssertionsHold(n, a, b) ==
    /\ n = u32_of(0) => (a = u32_of(0) /\ b = u32_of(1))
    /\ n = u32_of(1) => (a = u32_of(1) /\ b = u32_of(1))

\* Line 47 with the two results in each other's place.
public_values_swapped(n, a, b) == PublicValuesStruct(n, b, a)

\* Line 47: the struct main builds from its locals.
public_values(n, a, b) == PublicValuesStruct(n, a, b)

\* main: read n, reject n > 10000, enter fibonacci(n).
KernelStart ==
    /\ kpc = "ready"
    /\ kn' = stdin
    /\ IF InputTooLarge(stdin)
       THEN /\ kpc' = "panicked"
            /\ kpanic' = "Input too large: maximum allowed is 10000"
            /\ UNCHANGED <<ki, ka, kb>>
       ELSE /\ kpc' = "fib"
            /\ ki' = u32_of(0)
            /\ ka' = fibonacci_init[1]
            /\ kb' = fibonacci_init[2]
            /\ UNCHANGED kpanic
    /\ UNCHANGED <<stdin, committed>>
    /\ UNCHANGED <<pipeline_vars, client_vars>>

\* One iteration of the loop inside fibonacci(n).
KernelFibStep ==
    /\ kpc = "fib"
    /\ u32_lt(ki, kn)
    /\ ki' = wrapping_add(ki, u32_of(1))
    /\ ka' = fibonacci_step(ka, kb)[1]
    /\ kb' = fibonacci_step(ka, kb)[2]
    /\ UNCHANGED <<stdin, kpc, kn, kpanic, committed>>
    /\ UNCHANGED <<pipeline_vars, client_vars>>

\* main after fibonacci(n) returned: assertions, encoding, commit.
KernelFinish ==
    /\ kpc = "fib"
    /\ ~u32_lt(ki, kn)
    /\ IF BaseCaseAssertionsHold(kn, ka, kb)
       THEN /\ committed' = Append(committed, abi_encode(public_values(kn, ka, kb)))
            /\ kpc' = "done"
            /\ UNCHANGED kpanic
       ELSE /\ kpc' = "panicked"
            /\ kpanic' = "assertion failed"
            /\ UNCHANGED committed
    /\ UNCHANGED <<stdin, kn, ki, ka, kb>>
    /\ UNCHANGED <<pipeline_vars, client_vars>>

KernelNext == KernelStart \/ KernelFibStep \/ KernelFinish

(***************************************************************************)
(* Host-side text helpers: hex::encode, decimal formatting, to_uppercase   *)
(***************************************************************************)
HexDigits == "0123456789abcdef"

char_at(s, i) == SubSeq(s, i, i)

hex_byte(b) == char_at(HexDigits, (b \div 16) + 1) \o char_at(HexDigits, (b % 16) + 1)

\* Two lowercase digits per byte, in order.
RECURSIVE hex_range(_, _, _)
hex_range(bytes, lo, hi) ==
    IF lo > hi THEN ""
    ELSE IF lo = hi THEN hex_byte(bytes[lo])
    ELSE LET mid == (lo + hi) \div 2
         IN  hex_range(bytes, lo, mid) \o hex_range(bytes, mid + 1, hi)

hex_encode(bytes) == hex_range(bytes, 1, Len(bytes))

\* Display of a u32 ("{}"): decimal digits, most significant first.
u32_divmod10(x) ==
    LET rest == (x[1] % 10) * Limb + x[2]
    IN  [q |-> <<x[1] \div 10, rest \div 10>>, r |-> rest % 10]

RECURSIVE fmt_u32(_)
fmt_u32(x) ==
    LET dm == u32_divmod10(x)
        q  == dm.q
        d  == char_at("0123456789", dm.r + 1)
    IN  IF q = <<0, 0>> THEN d ELSE fmt_u32(q) \o d

fmt_usize(k) == fmt_u32(u32_of(k))

Lowercase == "abcdefghijklmnopqrstuvwxyz"
Uppercase == "ABCDEFGHIJKLMNOPQRSTUVWXYZ"

upper_char(c) ==
    IF \E i \in 1..26 : char_at(Lowercase, i) = c
    THEN char_at(Uppercase, CHOOSE i \in 1..26 : char_at(Lowercase, i) = c)
    ELSE c

RECURSIVE to_uppercase(_)
to_uppercase(s) ==
    IF s = "" THEN "" ELSE upper_char(char_at(s, 1)) \o to_uppercase(Tail(s))

starts_with(s, prefix) ==
    Len(s) >= Len(prefix) /\ SubSeq(s, 1, Len(prefix)) = prefix

(***************************************************************************)
(* save_proof_artifacts and generate_contract_call_data                    *)
(***************************************************************************)
proof_path(a) ==
    a.output_dir \o "/proof_" \o a.system \o "_n" \o fmt_u32(a.n) \o ".bin"

public_values_path(a) == a.output_dir \o "/public_values_n" \o fmt_u32(a.n) \o ".bin"

vkey_path(a) == a.output_dir \o "/verification_key.txt"

call_data_path(a) ==
    a.output_dir \o "/contract_call_data_n" \o fmt_u32(a.n) \o ".json"

summary_path(a) == a.output_dir \o "/summary_n" \o fmt_u32(a.n) \o ".txt"

\* serde_json values.  A JSON document on disk is kept as its value tree;
\* text that is not JSON is the value JInvalid.
JNull == [t |-> "null", v |-> <<>>]
JInvalid == [t |-> "invalid", v |-> <<>>]
JString(s) == [t |-> "string", v |-> s]
JNumber(x) == [t |-> "number", v |-> x]
JObject(fields) == [t |-> "object", v |-> fields]

generate_contract_call_data(pf, n) ==
    JObject(
    [function |-> JString("verifyFibonacciProof"),
     parameters |-> JObject(
        [publicValues |-> JString("0x" \o hex_encode(pf.public_values)),
         proofBytes |-> JString("0x" \o hex_encode(pf.bytes))]),
     expected_output |-> JObject(
        [n |-> JNumber(n),
         decoded_from_public_values |->
            JString("Use abi.decode(publicValues, (PublicValuesStruct))")]),
     contract_interface |-> JObject(
        [function_signature |-> JString("verifyFibonacciProof(bytes,bytes)"),
         returns |-> JString("(uint32,uint32,uint32)")])])

summary_text(pf, a, vkh) ==
    LET pv_hex    == hex_encode(pf.public_values)
        proof_hex == hex_encode(pf.bytes)
    IN  "SP1 " \o to_uppercase(a.system) \o " Proof Summary\n"
        \o "===================\n"
        \o "Input: " \o fmt_u32(a.n) \o "\n"
        \o "System: " \o a.system \o "\n"
        \o "Verification Key: 0x" \o vkh \o "\n"
        \o "Public Values: 0x" \o pv_hex \o "\n"
        \o "Proof: 0x" \o proof_hex \o "\n"
        \o "Proof Size: " \o fmt_usize(Len(pf.bytes)) \o " bytes\n"
        \o "\n"
        \o "To verify on-chain:\n"
        \o "1. Deploy Fibonacci contract with VKey: 0x" \o vkh \o "\n"
        \o "2. Call verifyFibonacciProof(publicValues, proof)\n"
        \o "3. Public Values: 0x" \o pv_hex \o "\n"
        \o "4. Proof: 0x" \o proof_hex \o "\n"

\* The five fs::write calls of save_proof_artifacts, in order: where the
\* k-th one writes, and what.
ArtifactCount == 5

artifact_path(a, k) ==
    CASE k = 1 -> proof_path(a)
      [] k = 2 -> public_values_path(a)
      [] k = 3 -> vkey_path(a)
      [] k = 4 -> call_data_path(a)
      [] k = 5 -> summary_path(a)

artifact_content(pf, a, vkh, k) ==
    CASE k = 1 -> pf.bytes
      [] k = 2 -> pf.public_values
      [] k = 3 -> "0x" \o vkh
      [] k = 4 -> generate_contract_call_data(pf, a.n)
      [] k = 5 -> summary_text(pf, a, vkh)

\* What a failed fs::write leaves behind.  fs::write opens the file with
\* create + truncate and then writes: a failure to open leaves the path as it
\* was (cut = -1); a failure after the open leaves the file holding the
\* first cut bytes of the new content, for whatever number cut, from 0 up to
\* one less than its length, the system accepted.  A cut JSON text is no JSON
\* document.
torn_content(content, k, cut) ==
    IF k = 4 THEN JInvalid ELSE SubSeq(content, 1, cut)

\* io_fail is the step at which the filesystem refuses: 0 for create_dir_all,
\* k in 1..5 for the k-th write, 6 for none at all; cut is what the refused
\* write got onto its file.  Every `?` returns at once, so the writes before
\* the failing one stay on disk.  The five paths of one call are distinct, so
\* each file holds what its own write put there.
save_proof_artifacts(files, ds, pf, a, vkh, io_fail, cut) ==
    LET done  == IF io_fail > ArtifactCount THEN ArtifactCount
                 ELSE IF io_fail = 0 THEN 0 ELSE io_fail - 1
        whole == {artifact_path(a, k) : k \in 1..done}
        torn  == IF io_fail \in 1..ArtifactCount /\ cut >= 0
                 THEN {artifact_path(a, io_fail)} ELSE {}
        paths == whole \cup torn
        step(p) == CHOOSE k \in 1..done : artifact_path(a, k) = p
    IN  [ok    |-> io_fail > ArtifactCount,
         dirs  |-> IF io_fail = 0 THEN ds ELSE ds \cup {a.output_dir},
         files |-> [p \in (DOMAIN files) \cup paths |->
                       IF p \in whole THEN artifact_content(pf, a, vkh, step(p))
                       ELSE IF p \in torn
                       THEN torn_content(artifact_content(pf, a, vkh, io_fail),
                                         io_fail, cut)
                       ELSE files[p]],
         paths |-> paths]

(***************************************************************************)
(* The kernel on its own, over a range of inputs                           *)
(***************************************************************************)
MaxSmallN == 50

KernelInputs ==
    {u32_of(k) : k \in 0..MaxSmallN}
        \cup {u32_of(MAX_N), u32_of(MAX_N + 1), <<1, 0>>, U32_MAX}

KernelIdle ==
    /\ kn = u32_of(0) /\ ki = u32_of(0)
    /\ ka = u32_of(0) /\ kb = u32_of(0)
    /\ kpanic = "" /\ committed = <<>>

(***************************************************************************)
(* The proving pipeline: main of network_evm.rs                            *)
(*                                                                         *)
(* The prover backend (setup, execute, prove, verify) is outside the       *)
(* repository.  execute runs the kernel above on the written stdin; what   *)
(* the backend hands back is otherwise a choice among the results its      *)
(* signature allows.  SP1_PROVER only selects which messages are printed.  *)
(***************************************************************************)
MaxRuns == 2

Systems == {"groth16", "plonk", "stark"}

PipelineInputs == {u32_of(2), u32_of(MAX_N + 1)}

OutputDirs == {"artifacts"}

ArgSets ==
    [n : PipelineInputs, system : Systems, save_artifacts : BOOLEAN,
     output_dir : OutputDirs]

NoArgs == [n |-> u32_of(0), system |-> "", save_artifacts |-> FALSE, output_dir |-> ""]

NoProof == [bytes |-> <<>>, public_values |-> <<>>]

NoPublicValues == PublicValuesStruct(u32_of(0), u32_of(0), u32_of(0))

\* vk.bytes32() of the one program this binary embeds.
VKeyStrings ==
    {"0x00a1b2c3d4e5f60718293a4b5c6d7e8f00112233445566778899aabbccddeeff"}

\* Proof bytes the backend may return: a system-specific selector byte and a
\* body that may differ from one proving request to the next.
ProofBodies == {1}

ProofBytesOf(system) ==
    {<<(IF system = "groth16" THEN 17 ELSE 84), v>> : v \in ProofBodies}

Terminal == {"done", "exit1", "panicked"}

PipelineIdleExceptFs ==
    /\ args = NoArgs /\ ppc = "idle" /\ ppanic = "" /\ calls = <<>> /\ returns = <<>>
    /\ vk_bytes32 \in VKeyStrings /\ vk_hash = ""
    /\ output = <<>> /\ decoded = NoPublicValues /\ proof = NoProof
    /\ dirs = {} /\ fs0 = <<>> /\ dirs0 = {}
    /\ runs = 0 /\ written = {} /\ persist_failed = FALSE

PipelineIdle == PipelineIdleExceptFs /\ fs = <<>>

ClientIdle ==
    /\ cpc = "idle" /\ cenv = [rpc_url |-> Ok(""), contract_address |-> ""]
    /\ overflow_checks = FALSE
    /\ printed = <<>> /\ cerr = "" /\ rpc_calls = <<>>
    /\ proof_bytes = <<>> /\ public_values_bytes = <<>>
    /\ rpc_result = Err

\* A run of the binary with the command line a.
PipelineStart(a) ==
    /\ ppc \in Terminal \cup {"idle"}
    /\ runs < MaxRuns
    /\ runs' = runs + 1
    /\ args' = a
    /\ ppc' = "start"
    /\ ppanic' = "" /\ calls' = <<>> /\ returns' = <<>> /\ vk_hash' = ""
    /\ output' = <<>> /\ decoded' = NoPublicValues /\ proof' = NoProof
    /\ fs0' = fs /\ dirs0' = dirs
    /\ UNCHANGED <<vk_bytes32, dirs, fs, written, persist_failed>>
    /\ UNCHANGED kernel_vars
    /\ UNCHANGED client_vars

\* The validation with a third system let through.
SystemRejected_stark_allowed(system) ==
    system # "groth16" /\ system # "plonk" /\ system # "stark"

SystemRejected(system) == system # "groth16" /\ system # "plonk"

\* Lines 39-60: argument validation.
ValidateSystem ==
    /\ ppc = "start"
    /\ ppc' = IF SystemRejected(args.system) THEN "exit1" ELSE "validated"
    /\ UNCHANGED <<args, ppanic, calls, returns, vk_bytes32, vk_hash, output, decoded, proof,
                   dirs, fs, fs0, dirs0, runs, written, persist_failed>>
    /\ UNCHANGED kernel_vars
    /\ UNCHANGED client_vars

strip_0x(s) == IF starts_with(s, "0x") THEN SubSeq(s, 3, Len(s)) ELSE s

\* Lines 62-87: client, stdin, setup, vk_hash.
Setup ==
    /\ ppc = "validated"
    /\ calls' = Append(calls, "setup")
    /\ returns' = Append(returns, [op |-> "setup", ok |-> TRUE])
    /\ vk_hash' = strip_0x(vk_bytes32)
    /\ ppc' = "setup"
    /\ UNCHANGED <<args, ppanic, vk_bytes32, output, decoded, proof,
                   dirs, fs, fs0, dirs0, runs, written, persist_failed>>
    /\ UNCHANGED kernel_vars
    /\ UNCHANGED client_vars

\* Line 91: client.execute(FIBONACCI_ELF, &stdin).run() starts the kernel.
Execute ==
    /\ ppc = "setup"
    /\ calls' = Append(calls, "execute")
    /\ ppc' = "executing"
    /\ stdin' = args.n
    /\ kpc' = "ready"
    /\ kn' = u32_of(0) /\ ki' = u32_of(0) /\ ka' = u32_of(0) /\ kb' = u32_of(0)
    /\ kpanic' = "" /\ committed' = <<>>
    /\ UNCHANGED <<args, ppanic, returns, vk_bytes32, vk_hash, output, decoded, proof,
                   dirs, fs, fs0, dirs0, runs, written, persist_failed>>
    /\ UNCHANGED client_vars

RECURSIVE concat(_)
concat(slices) == IF slices = <<>> THEN <<>> ELSE Head(slices) \o concat(Tail(slices))

\* What run() may return once the kernel has stopped: Err when it panicked;
\* otherwise the committed stream, a stream cut short by the backend, or Err.
ExecuteResults ==
    IF kpc = "panicked" THEN {Err}
    ELSE LET stream == concat(committed)
         IN  {Ok(stream), Ok(SubSeq(stream, 1, Len(stream) - 1)), Err}

\* Lines 91-100: unwrap the execution result, decode and unwrap the output.
ExecuteReturn(res) ==
    /\ ppc = "executing"
    /\ kpc \in {"done", "panicked"}
    /\ res \in ExecuteResults
    /\ LET dec == IF res.ok THEN abi_decode(res.val) ELSE Err
       IN  /\ ppc' = IF res.ok /\ dec.ok THEN "executed" ELSE "panicked"
           /\ ppanic' = IF ~res.ok THEN "called Result::unwrap() on an Err value: execute"
                        ELSE IF ~dec.ok THEN "called Result::unwrap() on an Err value: abi_decode"
                        ELSE ""
           /\ output' = IF res.ok THEN res.val ELSE <<>>
           /\ decoded' = IF res.ok /\ dec.ok THEN dec.val ELSE NoPublicValues
    /\ kpc' = "idle" /\ stdin' = u32_of(0)
    /\ kn' = u32_of(0) /\ ki' = u32_of(0) /\ ka' = u32_of(0) /\ kb' = u32_of(0)
    /\ kpanic' = "" /\ committed' = <<>>
    /\ returns' = Append(returns, [op |-> "execute", ok |-> res.ok])
    /\ UNCHANGED <<args, calls, vk_bytes32, vk_hash, proof,
                   dirs, fs, fs0, dirs0, runs, written, persist_failed>>
    /\ UNCHANGED client_vars

\* Public values a returned proof may carry: those of the dry run, or others.
ProofPublicValues ==
    {output, abi_encode(PublicValuesStruct(decoded.n, decoded.b, decoded.a))}

ProveResults ==
    {Ok([bytes |-> pb, public_values |-> pv]) :
        pb \in ProofBytesOf(args.system), pv \in ProofPublicValues} \cup {Err}

\* Lines 102-130: prove with the selected system, expect the result.
Prove(res) ==
    /\ ppc = "executed"
    /\ res \in ProveResults
    /\ calls' = Append(calls, "prove")
    /\ returns' = Append(returns, [op |-> "prove", ok |-> res.ok])
    /\ ppc' = IF res.ok THEN "proved" ELSE "panicked"
    /\ ppanic' = IF res.ok THEN "" ELSE "failed to generate proof"
    /\ proof' = IF res.ok THEN res.val ELSE NoProof
    /\ UNCHANGED <<args, vk_bytes32, vk_hash, output, decoded,
                   dirs, fs, fs0, dirs0, runs, written, persist_failed>>
    /\ UNCHANGED kernel_vars
    /\ UNCHANGED client_vars

\* Lines 132-135 with the result of verify dropped instead of expected.
Verify_unchecked(verified) ==
    /\ ppc = "proved"
    /\ calls' = Append(calls, "verify")
    /\ returns' = Append(returns, [op |-> "verify", ok |-> verified])
    /\ ppc' = "verified"
    /\ ppanic' = ""
    /\ UNCHANGED <<args, vk_bytes32, vk_hash, output, decoded, proof,
                   dirs, fs, fs0, dirs0, runs, written, persist_failed>>
    /\ UNCHANGED kernel_vars
    /\ UNCHANGED client_vars

\* Lines 132-135: verify the proof locally, expect the result.
Verify(verified) ==
    /\ ppc = "proved"
    /\ calls' = Append(calls, "verify")
    /\ returns' = Append(returns, [op |-> "verify", ok |-> verified])
    /\ ppc' = IF verified THEN "verified" ELSE "panicked"
    /\ ppanic' = IF verified THEN "" ELSE "failed to verify proof"
    /\ UNCHANGED <<args, vk_bytes32, vk_hash, output, decoded, proof,
                   dirs, fs, fs0, dirs0, runs, written, persist_failed>>
    /\ UNCHANGED kernel_vars
    /\ UNCHANGED client_vars

IoFailPoints == 0..(ArtifactCount + 1)

\* The lengths at which a refused write is cut, kept to the first few bytes
\* (every artifact other than the proof, and the call-data text in
\* particular, is longer than that).
MaxTorn == 1

TornCuts == (0 - 1)..MaxTorn

\* Lines 137-161: save the artifacts if requested, print the summary.
Finish(io_fail, cut) ==
    /\ ppc = "verified"
    /\ io_fail \in IoFailPoints
    /\ cut \in TornCuts
    /\ io_fail \notin 1..ArtifactCount => cut = 0 - 1
    /\ (io_fail \in 1..ArtifactCount /\ io_fail # 4) =>
           cut < Len(artifact_content(proof, args, vk_hash, io_fail))
    /\ IF args.save_artifacts
       THEN \E r \in {save_proof_artifacts(fs, dirs, proof, args, vk_hash, io_fail, cut)} :
                /\ fs' = r.files
                /\ dirs' = r.dirs
                /\ written' = written \cup
                       {[run |-> runs, system |-> args.system, n |-> args.n, path |-> p] :
                           p \in r.paths}
                /\ persist_failed' = (persist_failed \/ ~r.ok)
                /\ ppc' = IF r.ok THEN "done" ELSE "panicked"
                /\ ppanic' = IF r.ok THEN "" ELSE "failed to save artifacts"
       ELSE /\ io_fail = 0
            /\ ppc' = "done"
            /\ UNCHANGED <<ppanic, dirs, fs, written, persist_failed>>
    /\ UNCHANGED <<args, calls, returns, vk_bytes32, vk_hash, output, decoded, proof,
                   fs0, dirs0, runs>>
    /\ UNCHANGED kernel_vars
    /\ UNCHANGED client_vars

(***************************************************************************)
(* The remote verification client: main of verify_onchain.rs               *)
(*                                                                         *)
(* The RPC endpoint and the deployed contract are outside the repository:  *)
(* each call returns one of the results its signature allows.              *)
(***************************************************************************)
CALL_DATA_PATH == "artifacts/contract_call_data_n10.json"

\* What rpc_url.parse::<Url>() may return for the value of RPC_URL (or for
\* the built-in default when it is unset): the parsed URL, or one of the url
\* crate's parse errors, told apart by their text.
UrlParseErrors ==
    {"relative URL without a base", "empty host", "invalid port number",
     "invalid international domain name", "invalid domain character",
     "invalid IPv4 address", "invalid IPv6 address"}

RpcUrls ==
    {Ok("https://rpc.sepolia.succinct.xyz/")}
        \cup {[ok |-> FALSE, val |-> e] : e \in UrlParseErrors}

\* The values FIBONACCI_CONTRACT_ADDRESS may hold (unset gives the built-in
\* default).
ContractAddresses ==
    {"0x44a4c90114d64A027DB4630639153DC54eaA6224", "0x44a4",
     "zzzzzzzzzzzzzzzzzzzzzzzzzzzzzzzzzzzzzzzz"}

\* hex::decode: two digits per byte, either case; Err on an odd length or on
\* any other character.
hex_digit_ok(c) == \E i \in 1..16 : char_at(HexDigits, i) = c \/ upper_char(char_at(HexDigits, i)) = c

hex_digit(c) == (CHOOSE i \in 1..16 : char_at(HexDigits, i) = c \/ upper_char(char_at(HexDigits, i)) = c) - 1

hex_decode(s) ==
    IF Len(s) % 2 = 0 /\ \A i \in 1..Len(s) : hex_digit_ok(char_at(s, i))
    THEN Ok([k \in 1..(Len(s) \div 2) |->
                16 * hex_digit(char_at(s, 2 * k - 1)) + hex_digit(char_at(s, 2 * k))])
    ELSE Err

\* Address::from_str: an optional 0x, then exactly 40 hex digits in either
\* case (the checksum is not examined).
address_parse(s) ==
    LET digits == strip_0x(s)
    IN  IF Len(digits) % 2 # 0 THEN [ok |-> FALSE, val |-> "odd number of digits"]
        ELSE IF Len(digits) # 40 THEN [ok |-> FALSE, val |-> "invalid string length"]
        ELSE IF \E i \in 1..40 : ~hex_digit_ok(char_at(digits, i))
        THEN [ok |-> FALSE, val |-> "invalid character"]
        ELSE Ok(digits)

address_parse_ok(s) == address_parse(s).ok

\* call_data[key] on a serde_json Value: Null unless an object holding key.
json_index(v, key) ==
    IF v.t = "object" /\ key \in DOMAIN v.v THEN v.v[key] ELSE JNull

\* Value::as_str
json_as_str(v) == IF v.t = "string" THEN Ok(v.v) ELSE Err

\* What the contract call may return: a decoded (n, a, b), or an error whose
\* text the client inspects.
Responses ==
    {PublicValuesStruct(u32_of(t[1]), u32_of(t[2]), u32_of(t[3])) :
        t \in {<<10, 55, 89>>, <<10, 34, 55>>, <<10, 55, 88>>, <<5, 5, 8>>,
               <<1, 1, 1>>, <<0, 0, 1>>}}

RpcErrors ==
    {[kind |-> "revert",
      text |-> "server returned an error response: error code 3: execution reverted"],
     [kind |-> "transport",
      text |-> "error sending request for url (https://rpc.sepolia.succinct.xyz/)"]}

RECURSIVE contains_from(_, _, _)
contains_from(s, pat, i) ==
    IF i + Len(pat) - 1 > Len(s) THEN FALSE
    ELSE IF SubSeq(s, i, i + Len(pat) - 1) = pat THEN TRUE
    ELSE contains_from(s, pat, i + 1)

contains(s, pat) == contains_from(s, pat, 1)

\* response.n - 1 on a u32: below zero the build decides, a panic with
\* overflow checks (debug profile), a wrap without (release profile).
u32_sub_one(n, checks) ==
    IF n = u32_of(0) THEN (IF checks THEN Err ELSE Ok(U32_MAX))
    ELSE Ok(IF n[2] = 0 THEN <<n[1] - 1, Limb - 1>> ELSE <<n[1], n[2] - 1>>)

\* Line 102: the values the client accepts.
MathVerified(r) == r.n = u32_of(10) /\ r.a = u32_of(55) /\ r.b = u32_of(89)

\* The existence check left out.
CallDataMissing_never(files) == FALSE

\* Lines 54-58: !Path::new(call_data_path).exists()
CallDataMissing(files) == CALL_DATA_PATH \notin DOMAIN files

\* Lines 29-48: environment, provider, contract address.
ClientConfigure ==
    /\ cpc = "start"
    /\ IF ~cenv.rpc_url.ok
       THEN cpc' = "exit_err" /\ cerr' = cenv.rpc_url.val
       ELSE IF ~address_parse_ok(cenv.contract_address)
       THEN cpc' = "exit_err" /\ cerr' = address_parse(cenv.contract_address).val
       ELSE cpc' = "configured" /\ UNCHANGED cerr
    /\ UNCHANGED <<cenv, overflow_checks, printed, rpc_calls, proof_bytes,
                   public_values_bytes, rpc_result>>
    /\ UNCHANGED <<kernel_vars, pipeline_vars>>

\* Lines 50-79: find, read and parse the call-data document, decode its hex.
read_call_data(files) ==
    IF CALL_DATA_PATH \notin DOMAIN files THEN [ok |-> FALSE, val |-> "No such file or directory (os error 2)"]
    ELSE LET doc    == files[CALL_DATA_PATH]
             params == json_index(doc, "parameters")
             pb     == json_as_str(json_index(params, "proofBytes"))
             pv     == json_as_str(json_index(params, "publicValues"))
         IN  IF doc.t = "invalid" THEN [ok |-> FALSE, val |-> "expected value at line 1 column 1"]
             ELSE IF ~pb.ok THEN [ok |-> FALSE, val |-> "Missing proofBytes"]
             ELSE IF ~pv.ok THEN [ok |-> FALSE, val |-> "Missing publicValues"]
             ELSE LET pbb == hex_decode(strip_0x(pb.val))
                      pvb == hex_decode(strip_0x(pv.val))
                  IN  IF ~pbb.ok \/ ~pvb.ok
                      THEN [ok |-> FALSE, val |-> "Invalid character or odd number of digits"]
                      ELSE Ok([proof_bytes |-> pbb.val, public_values_bytes |-> pvb.val])

ClientReadCallData ==
    /\ cpc = "configured"
    /\ IF CallDataMissing(fs)
       THEN /\ printed' = Append(printed, "Contract call data not found at " \o CALL_DATA_PATH)
            /\ cpc' = "exit_ok"
            /\ UNCHANGED <<cerr, proof_bytes, public_values_bytes>>
       ELSE \E r \in {read_call_data(fs)} :
                IF r.ok
                THEN /\ proof_bytes' = r.val.proof_bytes
                     /\ public_values_bytes' = r.val.public_values_bytes
                     /\ cpc' = "loaded"
                     /\ UNCHANGED <<cerr, printed>>
                ELSE /\ cpc' = "exit_err"
                     /\ cerr' = r.val
                     /\ UNCHANGED <<printed, proof_bytes, public_values_bytes>>
    /\ UNCHANGED <<cenv, overflow_checks, rpc_calls, rpc_result>>
    /\ UNCHANGED <<kernel_vars, pipeline_vars>>

\* Lines 81-86: contract.getProgramVKey().call().await?
ClientGetProgramVKey(res) ==
    /\ cpc = "loaded"
    /\ res \in {Ok(<<>>)} \cup {[ok |-> FALSE, val |-> e] : e \in RpcErrors}
    /\ rpc_calls' = Append(rpc_calls, "getProgramVKey")
    /\ IF res.ok
       THEN cpc' = "vkey_read" /\ UNCHANGED cerr
       ELSE cpc' = "exit_err" /\ cerr' = res.val.text
    /\ UNCHANGED <<cenv, overflow_checks, printed, proof_bytes, public_values_bytes,
                   rpc_result>>
    /\ UNCHANGED <<kernel_vars, pipeline_vars>>

\* Lines 88-124: call verifyFibonacciProof and report on the result.
ClientVerifyProof(res) ==
    /\ cpc = "vkey_read"
    /\ res \in {Ok(r) : r \in Responses} \cup {[ok |-> FALSE, val |-> e] : e \in RpcErrors}
    /\ rpc_calls' = Append(rpc_calls, "verifyFibonacciProof")
    /\ rpc_result' = res
    /\ IF res.ok
       THEN IF ~u32_sub_one(res.val.n, overflow_checks).ok
            THEN /\ printed' = printed \o <<"Proof verification successful!">>
                 /\ cpc' = "panicked"
                 /\ cerr' = "attempt to subtract with overflow"
            ELSE /\ printed' = printed \o
                        <<"Proof verification successful!",
                          IF MathVerified(res.val) THEN "Mathematics verified correctly!"
                          ELSE "Unexpected values returned">>
                 /\ cpc' = "exit_ok"
                 /\ UNCHANGED cerr
       ELSE /\ printed' = printed \o
                   (<<"Proof verification failed!">> \o
                    (IF contains(res.val.text, "revert")
                     THEN <<"This might be due to: invalid proof data, wrong program VKey, contract not properly deployed">>
                     ELSE <<>>))
            /\ cpc' = "exit_ok"
            /\ UNCHANGED cerr
    /\ UNCHANGED <<cenv, overflow_checks, proof_bytes, public_values_bytes>>
    /\ UNCHANGED <<kernel_vars, pipeline_vars>>

\* A bundle as the pipeline leaves it for n = 10, and damaged variants of it.
SampleArgs ==
    [n |-> u32_of(10), system |-> "groth16", save_artifacts |-> TRUE,
     output_dir |-> "artifacts"]

SampleProof ==
    [bytes |-> <<17, 1>>,
     public_values |-> abi_encode(PublicValuesStruct(u32_of(10), u32_of(55), u32_of(89)))]

SampleBundle(io_fail, cut) ==
    save_proof_artifacts(<<>>, {}, SampleProof, SampleArgs, "00a1b2", io_fail, cut).files

WithCallData(doc) == [p \in {CALL_DATA_PATH} |-> doc]

\* The states of the working directory the client is started in.
ClientFileSystemIds == 1..9

ClientFileSystem(i) ==
    CASE i = 1 -> SampleBundle(0, 0 - 1)
      [] i = 2 -> SampleBundle(4, 0 - 1)
      [] i = 3 -> SampleBundle(6, 0 - 1)
      [] i = 9 -> SampleBundle(4, 1)
      [] i = 4 -> WithCallData(JInvalid)
      [] i = 5 -> WithCallData(JObject([function |-> JString("verifyFibonacciProof")]))
      [] i = 6 -> WithCallData(JObject([parameters |-> JObject(
                     [proofBytes |-> JString("0x1101"),
                      publicValues |-> JNumber(u32_of(10))])]))
      [] i = 7 -> WithCallData(JObject([parameters |-> JObject(
                     [proofBytes |-> JString("0x110"),
                      publicValues |-> JString("0x0a")])]))
      [] i = 8 -> WithCallData(JObject([parameters |-> JObject(
                     [proofBytes |-> JString("11AB"),
                      publicValues |-> JString("0xzz")])]))

(***************************************************************************)
(* Specifications                                                          *)
(***************************************************************************)
KernelInit ==
    /\ stdin \in KernelInputs
    /\ kpc = "ready"
    /\ KernelIdle
    /\ PipelineIdle
    /\ ClientIdle

SpecKernel == KernelInit /\ [][KernelNext]_vars

PipelineInit ==
    /\ stdin = u32_of(0)
    /\ kpc = "idle"
    /\ KernelIdle
    /\ PipelineIdle
    /\ ClientIdle

PipelineNext ==
    \/ \E a \in ArgSets : PipelineStart(a)
    \/ ValidateSystem
    \/ Setup
    \/ Execute
    \/ KernelStart
    \/ KernelFibStep
    \/ KernelFinish
    \/ \E res \in ExecuteResults : ExecuteReturn(res)
    \/ \E res \in ProveResults : Prove(res)
    \/ \E verified \in BOOLEAN : Verify(verified)
    \/ \E io_fail \in IoFailPoints, cut \in TornCuts : Finish(io_fail, cut)

SpecPipeline == PipelineInit /\ [][PipelineNext]_vars

ClientInit ==
    /\ stdin = u32_of(0) /\ kpc = "idle" /\ KernelIdle
    /\ PipelineIdleExceptFs
    /\ \E i \in ClientFileSystemIds : fs = ClientFileSystem(i)
    /\ cenv \in [rpc_url : RpcUrls, contract_address : ContractAddresses]
    /\ overflow_checks \in BOOLEAN
    /\ cpc = "start"
    /\ printed = <<>> /\ cerr = "" /\ rpc_calls = <<>>
    /\ proof_bytes = <<>> /\ public_values_bytes = <<>>
    /\ rpc_result = Err

ClientNext ==
    \/ ClientConfigure
    \/ ClientReadCallData
    \/ \E res \in {Ok(<<>>)} \cup {[ok |-> FALSE, val |-> e] : e \in RpcErrors} :
           ClientGetProgramVKey(res)
    \/ \E res \in {Ok(r) : r \in Responses} \cup {[ok |-> FALSE, val |-> e] : e \in RpcErrors} :
           ClientVerifyProof(res)

SpecClient == ClientInit /\ [][ClientNext]_vars

(***************************************************************************)
(* Reference Fibonacci numbers modulo 2^32, by fast doubling:              *)
(*   F(2k) = F(k) * (2 F(k+1) - F(k)),  F(2k+1) = F(k)^2 + F(k+1)^2        *)
(* with F(0) = 0, F(1) = 1.  Products are taken bytewise so that every     *)
(* intermediate value stays below 2^31.                                    *)
(***************************************************************************)
RefAdd(x, y) ==
    LET lo == x[2] + y[2]
    IN  <<(x[1] + y[1] + (IF lo >= Limb THEN 1 ELSE 0)) % Limb, lo % Limb>>

RefSub(x, y) ==
    LET borrow == IF x[2] < y[2] THEN 1 ELSE 0
    IN  <<(x[1] - y[1] - borrow + 2 * Limb) % Limb, (x[2] - y[2] + Limb) % Limb>>

\* The 32-bit product of two 16-bit limbs.
RefMul16(x, y) ==
    LET p1 == (x \div 256) * y
        p0 == (x % 256) * y
        lo == (p1 % 256) * 256 + p0
    IN  <<(p1 \div 256) + (lo \div Limb), lo % Limb>>

RefMul(x, y) ==
    LET ll    == RefMul16(x[2], y[2])
        cross == RefMul16(x[1], y[2])[2] + RefMul16(x[2], y[1])[2]
    IN  <<(ll[1] + cross) % Limb, ll[2]>>

\* <<F(k), F(k+1)>> for a natural number k.
RECURSIVE RefFibPair(_)
RefFibPair(k) ==
    IF k = 0 THEN <<u32_of(0), u32_of(1)>>
    ELSE LET h == RefFibPair(k \div 2)
             c == RefMul(h[1], RefSub(RefAdd(h[2], h[2]), h[1]))
             d == RefAdd(RefMul(h[1], h[1]), RefMul(h[2], h[2]))
         IN  IF k % 2 = 0 THEN <<c, d>> ELSE <<d, RefAdd(c, d)>>

\* fib with fib(0) = 0, fib(1) = 1.
RefFib(k) == RefFibPair(k)[1]

\* fib with fib(0) = 1, fib(1) = 1.
RefFibFromOne(k) == RefFibPair(k)[2]

u32_to_nat(x) == x[1] * Limb + x[2]

\* The triple decoded from the one slice the kernel committed.
CommittedTriple == abi_decode(committed[1]).val

(***************************************************************************)
(* Claims about the kernel (SpecKernel)                                    *)
(***************************************************************************)
\* C3: for every n > 10000 the kernel aborts and the commit is never reached;
\* whenever the kernel finishes, n <= 10000 and the public values were
\* committed exactly once; nothing is ever committed twice or before the end.
C3_AbortBeforeCommit ==
    /\ (kpc # "ready" /\ u32_gt(stdin, u32_of(10000)))
           => (kpc = "panicked" /\ committed = <<>>)
    /\ kpc = "done" => (~u32_gt(kn, u32_of(10000)) /\ Len(committed) = 1)
    /\ kpc # "done" => committed = <<>>

C3_Witness ==
    /\ kpc = "panicked"
    /\ stdin = u32_of(10001)
    /\ kpanic = "Input too large: maximum allowed is 10000"
    /\ committed = <<>>

\* C4 as amended: for all n in [0, 10000] the committed triple (n, a, b) has
\* a = fib(n-1) (a = 0 when n = 0) and b = fib(n) as uint32 values, where
\* fib(0) = 1 and fib(1) = 1; every pair the loop passes through on the way
\* is the pair of the iteration count reached.
C4_CommittedIsFibonacciFromOne ==
    /\ kpc = "done" =>
          /\ Len(committed) = 1
          /\ abi_decode(committed[1]).ok
          /\ CommittedTriple.n = kn
          /\ CommittedTriple.a =
                (IF kn = u32_of(0) THEN u32_of(0) ELSE RefFibFromOne(u32_to_nat(kn) - 1))
          /\ CommittedTriple.b = RefFibFromOne(u32_to_nat(kn))
    /\ kpc = "fib" =>
          /\ ka = (IF ki = u32_of(0) THEN u32_of(0) ELSE RefFibFromOne(u32_to_nat(ki) - 1))
          /\ kb = RefFibFromOne(u32_to_nat(ki))

C4_Witness ==
    /\ kpc = "done"
    /\ kn = u32_of(47)
    /\ Len(committed) = 1
    /\ CommittedTriple.a = RefFibFromOne(46)
    /\ CommittedTriple.b = RefFibFromOne(47)
    /\ u32_gt(CommittedTriple.a, CommittedTriple.b)

\* C4 as stated: the committed triple has a = fib(n-1) (a = 0 when n = 0) and
\* b = fib(n) where fib(0) = 0 and fib(1) = 1.
C4_CommittedIsFibonacciFromZero ==
    kpc = "done" =>
        /\ CommittedTriple.a =
              (IF kn = u32_of(0) THEN u32_of(0) ELSE RefFib(u32_to_nat(kn) - 1))
        /\ CommittedTriple.b = RefFib(u32_to_nat(kn))

(***************************************************************************)
(* Claims about the proving pipeline (SpecPipeline)                        *)
(***************************************************************************)
Invoked(op) == \E i \in 1..Len(calls) : calls[i] = op

Returned(op, ok) == \E i \in 1..Len(returns) : returns[i] = [op |-> op, ok |-> ok]

WrittenThisRun == {w \in written : w.run = runs}

OutputDirUnchanged == fs = fs0 /\ dirs = dirs0 /\ WrittenThisRun = {}

\* C1: in every run, prove is invoked only after the dry-run execute of the
\* same run returned Ok and its output decoded as a well-formed (n, a, b);
\* when execute or the decoding fails the run ends without invoking prove.
C1_ProveOnlyAfterDryRun ==
    /\ Invoked("prove") =>
          /\ \E i, j \in 1..Len(calls) :
                i < j /\ calls[i] = "execute" /\ calls[j] = "prove"
          /\ Returned("execute", TRUE)
          /\ Len(output) = 96
          /\ abi_encode(decoded) = output
    /\ (Returned("execute", FALSE) \/ (Returned("execute", TRUE) /\ Len(output) # 96)) =>
          /\ ppc = "panicked"
          /\ ~Invoked("prove")

C1_Witness ==
    /\ ppc = "panicked"
    /\ Returned("execute", TRUE)
    /\ Len(output) = 95
    /\ ppanic = "called Result::unwrap() on an Err value: abi_decode"
    /\ ~Invoked("prove")

\* C2: for every system other than groth16 and plonk the run ends with exit
\* status 1 before setup, execute, prove or verify is invoked, before the
\* kernel is started and before any file or directory is written.
C2_UnknownSystemRejectedFirst ==
    (ppc \notin {"idle", "start"} /\ args.system \notin {"groth16", "plonk"}) =>
        /\ ppc = "exit1"
        /\ calls = <<>>
        /\ returns = <<>>
        /\ kpc = "idle"
        /\ OutputDirUnchanged

C2_Witness ==
    /\ ppc = "exit1"
    /\ args.system = "stark"
    /\ runs = 2
    /\ fs # <<>>
    /\ calls = <<>>
    /\ OutputDirUnchanged

\* C6: in every run, a file or directory is written only after prove returned
\* a proof and verify of it returned Ok in that run, and only when
\* save_artifacts is set; when prove or verify fails the run ends in a panic
\* with the output directory as the run found it.
C6_WriteOnlyAfterVerifiedProof ==
    /\ ~OutputDirUnchanged =>
          /\ Returned("prove", TRUE)
          /\ Returned("verify", TRUE)
          /\ ~Returned("verify", FALSE)
          /\ proof # NoProof
          /\ args.save_artifacts
    /\ (Returned("prove", FALSE) \/ Returned("verify", FALSE)) =>
          /\ ppc = "panicked"
          /\ OutputDirUnchanged
    /\ (ppc # "idle" /\ ~args.save_artifacts) => OutputDirUnchanged

C6_Witness ==
    /\ ppc = "panicked"
    /\ ppanic = "failed to verify proof"
    /\ Returned("prove", TRUE)
    /\ Returned("verify", FALSE)
    /\ args.save_artifacts
    /\ fs # <<>>
    /\ OutputDirUnchanged

\* C5: artifact bundles are keyed by (system, n): after any sequence of
\* successful persist invocations, no two invocations with different
\* (system, n) have written the same file, and every persisted bundle is
\* self-consistent: the proofBytes of its call-data document are the bytes of
\* its proof file.
C5_BundlesKeyedBySystemAndN ==
    ~persist_failed =>
        /\ \A w1, w2 \in written :
              (w1.system # w2.system \/ w1.n # w2.n) => w1.path # w2.path
        /\ \A w \in written :
              LET a == [n |-> w.n, system |-> w.system, save_artifacts |-> TRUE,
                        output_dir |-> "artifacts"]
              IN  (w.path = proof_path(a)) =>
                      /\ call_data_path(a) \in DOMAIN fs
                      /\ fs[call_data_path(a)].v.parameters.v.proofBytes.v
                             = "0x" \o hex_encode(fs[proof_path(a)])

\* C10: when the public values inside the returned proof differ from the
\* output of the same run's dry-run execution, the run fails with nothing
\* persisted: it never completes having written a call-data document that
\* carries those public values.
C10_MismatchedPublicValuesNotPersisted ==
    (Returned("prove", TRUE) /\ proof.public_values # output) =>
        ~(/\ ppc = "done"
          /\ \E w \in WrittenThisRun : w.path = call_data_path(args))

(***************************************************************************)
(* Claims about the verification client (SpecClient)                       *)
(***************************************************************************)
ClientEnded == cpc \in {"exit_ok", "exit_err", "panicked"}

NotFoundReport == <<"Contract call data not found at " \o CALL_DATA_PATH>>

ReportsSuccess ==
    \E i \in 1..Len(printed) : printed[i] = "Proof verification successful!"

ConfigParses ==
    cenv.rpc_url.ok /\ address_parse_ok(cenv.contract_address)

VerifyCallReturned == Len(rpc_calls) = 2 /\ cpc \notin {"loaded", "vkey_read"}

\* C7 as amended: when the call-data document does not exist the client never
\* panics, never issues an RPC call and never reports a verification success;
\* it ends with the not-found report and a normal return when RPC_URL and the
\* contract address parse, and with the parse error otherwise.
C7_MissingCallDataNeverReachesRpc ==
    ("artifacts/contract_call_data_n10.json" \notin DOMAIN fs) =>
        /\ cpc \notin {"panicked", "loaded", "vkey_read"}
        /\ rpc_calls = <<>>
        /\ ~ReportsSuccess
        /\ (ClientEnded /\ ConfigParses) => (cpc = "exit_ok" /\ printed = NotFoundReport)
        /\ (ClientEnded /\ ~ConfigParses) =>
              (cpc = "exit_err" /\ printed = <<>> /\ cerr # "")

C7_Witness ==
    /\ "artifacts/contract_call_data_n10.json" \notin DOMAIN fs
    /\ DOMAIN fs # {}
    /\ cpc = "exit_ok"
    /\ printed = NotFoundReport
    /\ rpc_calls = <<>>

\* C7 as stated: when the call-data document does not exist the client ends
\* with the not-found outcome, without a panic, an RPC call or a success
\* report.
C7_MissingCallDataEndsNotFound ==
    (("artifacts/contract_call_data_n10.json" \notin DOMAIN fs) /\ ClientEnded) =>
        /\ cpc = "exit_ok"
        /\ printed = NotFoundReport
        /\ rpc_calls = <<>>
        /\ ~ReportsSuccess

\* a = fib(n-1) (a = 0 when n = 0) and b = fib(n), as the kernel commits them.
FibonacciRelation(r) ==
    /\ r.a = (IF r.n = u32_of(0) THEN u32_of(0) ELSE RefFibFromOne(u32_to_nat(r.n) - 1))
    /\ r.b = RefFibFromOne(u32_to_nat(r.n))

Printed(line) == \E i \in 1..Len(printed) : printed[i] = line

\* C8: when verifyFibonacciProof returns (n, a, b), the client ends normally
\* and reports the values as correct exactly when a = fib(n-1) and b = fib(n),
\* for every n including 0, and as a mismatch otherwise.
C8_SanityCheckIsFibonacciRelation ==
    (VerifyCallReturned /\ rpc_result.ok) =>
        /\ cpc = "exit_ok"
        /\ Printed("Mathematics verified correctly!") <=> FibonacciRelation(rpc_result.val)
        /\ Printed("Unexpected values returned") <=> ~FibonacciRelation(rpc_result.val)

\* C9: when verifyFibonacciProof fails, the client ends with an error that
\* names the cause, VerificationRejected for a revert and TransportError for
\* a transport failure, and never with a normal completion.
C9_FailureKindsDistinguished ==
    (VerifyCallReturned /\ ~rpc_result.ok) =>
        /\ cpc = "exit_err"
        /\ cerr = (IF rpc_result.val.kind = "revert" THEN "VerificationRejected"
                   ELSE "TransportError")

====
